---- MODULE Spec2Model ----
(***************************************************************************)
(* A state-machine model of four pieces of the dashboard frontend:         *)
(*                                                                         *)
(*   - the pipeline-server configuration flow of                           *)
(*     concepts/pipelines/content/configurePipelinesServer/utils.ts        *)
(*     (createSecrets, createDSPipelineResourceSpec, ...),                 *)
(*   - objectStorageIsValid of the same file,                              *)
(*   - the cluster settings form of pages/clusterSettings/ClusterSettings, *)
(*   - createProject of api/k8s/projects.ts.                               *)
(*                                                                         *)
(* JavaScript strings that the code takes apart (the S3 endpoint, the      *)
(* values that are trimmed) are sequences of one-character strings; names  *)
(* and keys the code only passes along are TLA+ strings.  An optional      *)
(* value (T | undefined) is a sequence of length at most one: << >> is     *)
(* undefined and <<x>> is the value x.                                     *)
(*                                                                         *)
(* The browser runs one task at a time and drains the promise reactions    *)
(* (microtasks) of a task before it takes the next one, so every action    *)
(* below is one task together with all the continuations it triggers.      *)
(***************************************************************************)
EXTENDS Integers, Sequences, FiniteSets, TLC

VARIABLES
    \* ---- pipeline-server configuration flow
    config,          \* the PipelineServerConfigType handed to the flow
    flowStarted,     \* configureDSPipelineResourceSpec has been called
    calls,           \* the four createSecret promises, by slot
    requests,        \* createSecret requests issued, in order
    responses,       \* createSecret responses received, in order
    secrets,         \* secrets persisted on the cluster
    createSecretsP,  \* the promise createSecrets returns
    configureP,      \* the promise configureDSPipelineResourceSpec returns
    \* ---- createDSPipelineResourceSpec / objectStorageIsValid as functions
    specInput,       \* config handed to createDSPipelineResourceSpec
    specOutput,      \* what it returned (or that it threw)
    entries,         \* EnvVariableDataEntry[] handed to objectStorageIsValid
    validOutput,     \* what it returned
    \* ---- cluster settings form (React state of ClusterSettings)
    loaded, loadError, saving, clusterSettings, pvcSize, userTrackingEnabled,
    cullerTimeout, notebookTolerationSettings, modelServingEnabledPlatforms,
    fetchPending,    \* fetchClusterSettings has not been answered yet
    inflight,        \* settings submitted by updateClusterSettings calls not yet answered
    notifications,   \* statuses of the notifications dispatched, in order
    lastEvent,       \* the kind of the event handled last
    \* ---- createProject
    projectArgs,     \* the arguments of the createProject call
    projectPc,       \* where the call is
    projectCalls,    \* requests createProject issued, in order
    projects,        \* projects that exist on the cluster
    createdName,     \* project.metadata.name the cluster answered with
    labelResponse,   \* what the namespace endpoint answered
    projectP         \* the promise createProject returns

flowVars == <<config, flowStarted, calls, requests, responses, secrets,
              createSecretsP, configureP>>
pureVars == <<specInput, specOutput, entries, validOutput>>
settingsVars == <<loaded, loadError, saving, clusterSettings, pvcSize,
                  userTrackingEnabled, cullerTimeout, notebookTolerationSettings,
                  modelServingEnabledPlatforms, fetchPending, inflight,
                  notifications, lastEvent>>
projectVars == <<projectArgs, projectPc, projectCalls, projects, createdName,
                 labelResponse, projectP>>
vars == <<flowVars, pureVars, settingsVars, projectVars>>

-----------------------------------------------------------------------------
(* Optional values *)

None == << >>
Some(x) == <<x>>
IsSome(o) == o # << >>
Val(o) == o[1]

\* a || b for an optional string a and a string b ('' is falsy)
OrElse(o, d) == IF IsSome(o) /\ Val(o) # << >> THEN Val(o) ELSE d

\* a ?? b
OrElseUndefined(o, d) == IF IsSome(o) THEN Val(o) ELSE d

-----------------------------------------------------------------------------
(* Bounds of the model *)

\* longest S3 endpoint string handed to createDSPipelineResourceSpec alone
MaxLen == 6
\* longest entry list handed to objectStorageIsValid
MaxEntries == 3

-----------------------------------------------------------------------------
(* Strings *)

\* \w of a JavaScript regular expression: [A-Za-z0-9_]
WordChars ==
    {"a","b","c","d","e","f","g","h","i","j","k","l","m","n","o","p","q","r",
     "s","t","u","v","w","x","y","z","A","B","C","D","E","F","G","H","I","J",
     "K","L","M","N","O","P","Q","R","S","T","U","V","W","X","Y","Z","0","1",
     "2","3","4","5","6","7","8","9","_"}

\* the line terminators "." does not match
LineTerminators == {"\n", "\r"}

\* the white space String.prototype.trim removes (the part of it in use here)
WhiteSpace == {" ", "\t", "\n", "\r"}

RECURSIVE WordRun(_)
\* length of the longest prefix of s made of word characters: what a greedy
\* \w+ anchored at the start consumes
WordRun(s) ==
    IF s # << >> /\ Head(s) \in WordChars THEN 1 + WordRun(Tail(s)) ELSE 0

RECURSIVE DotStar(_)
\* what a greedy (.*) consumes at the start of s
DotStar(s) ==
    IF s # << >> /\ Head(s) \notin LineTerminators
    THEN <<Head(s)>> \o DotStar(Tail(s))
    ELSE << >>

\* s.match(/^(?:(\w+):\/\/)?(.*)/): the two capture groups.  \w+ can only end
\* where the word run ends, because "://" starts with a non-word character;
\* when the optional group fails the match goes on without it, so the
\* expression matches every string.
EndpointMatch(s) ==
    LET n == WordRun(s)
        hasScheme == /\ n >= 1
                     /\ Len(s) >= n + 3
                     /\ SubSeq(s, n + 1, n + 3) = <<":", "/", "/">>
    IN  IF hasScheme
        THEN [scheme |-> Some(SubSeq(s, 1, n)),
              host   |-> Some(DotStar(SubSeq(s, n + 4, Len(s))))]
        ELSE [scheme |-> None, host |-> Some(DotStar(s))]

\* awsRecord.AWS_S3_ENDPOINT?.match(...) ?? []  destructured into
\* [, externalStorageScheme, externalStorageHost]
EndpointParts(endpoint) ==
    IF IsSome(endpoint) THEN EndpointMatch(Val(endpoint))
    ELSE [scheme |-> None, host |-> None]

RECURSIVE StripTrailingSlashes(_)
\* h.replace(/\/+$/, ''): every trailing slash removed
StripTrailingSlashes(h) ==
    IF h # << >> /\ h[Len(h)] = "/"
    THEN StripTrailingSlashes(SubSeq(h, 1, Len(h) - 1))
    ELSE h

\* h.replace(/\/$/, ''): without the m flag $ is the end of the string
StripTrailingSlash(h) ==
    IF h # << >> /\ h[Len(h)] = "/" THEN SubSeq(h, 1, Len(h) - 1) ELSE h

RECURSIVE TrimStart(_)
TrimStart(s) ==
    IF s # << >> /\ Head(s) \in WhiteSpace THEN TrimStart(Tail(s)) ELSE s

RECURSIVE TrimEnd(_)
TrimEnd(s) ==
    IF s # << >> /\ s[Len(s)] \in WhiteSpace
    THEN TrimEnd(SubSeq(s, 1, Len(s) - 1))
    ELSE s

\* value.trim()
Trim(s) == TrimEnd(TrimStart(s))

-----------------------------------------------------------------------------
(* Records built from key/value entry lists *)

\* dataEntryToRecord(entries), and the reduce of createDatabaseSecret: a later
\* entry overrides an earlier one with the same key
dataEntryToRecord(es) ==
    [k \in {es[i].key : i \in DOMAIN es} |->
        es[CHOOSE i \in DOMAIN es :
              /\ es[i].key = k
              /\ \A j \in DOMAIN es : es[j].key = k => j <= i].value]

\* record[key], undefined when the key is absent
Get(rec, k) == IF k \in DOMAIN rec THEN Some(rec[k]) ELSE None

-----------------------------------------------------------------------------
(* Constants of the pipeline-server configuration *)

AWS_ACCESS_KEY_ID     == "AWS_ACCESS_KEY_ID"
AWS_SECRET_ACCESS_KEY == "AWS_SECRET_ACCESS_KEY"
AWS_S3_ENDPOINT       == "AWS_S3_ENDPOINT"
AWS_DEFAULT_REGION    == "AWS_DEFAULT_REGION"
AWS_S3_BUCKET         == "AWS_S3_BUCKET"

\* the static field table: every field but the region is required
PIPELINE_AWS_FIELDS ==
    << [key |-> AWS_ACCESS_KEY_ID,     label |-> "Access key", isRequired |-> TRUE],
       [key |-> AWS_SECRET_ACCESS_KEY, label |-> "Secret key", isRequired |-> TRUE],
       [key |-> AWS_S3_ENDPOINT,       label |-> "Endpoint",   isRequired |-> TRUE],
       [key |-> AWS_DEFAULT_REGION,    label |-> "Region",     isRequired |-> FALSE],
       [key |-> AWS_S3_BUCKET,         label |-> "Bucket",     isRequired |-> TRUE] >>

DB_HOST     == "HOST"
DB_PORT     == "PORT"
DB_USERNAME == "USERNAME"
DB_PASSWORD == "PASSWORD"
DB_DATABASE == "DATABASE"

ExternalDatabaseSecretKEY  == "db-password"
ExternalDatabaseSecretNAME == "pipelines-db-password"
DSPA_SECRET_NAME           == "dashboard-dspa-secret"

ProjectName == "project"
Https == <<"h", "t", "t", "p", "s">>
Region == "us-east-2"

-----------------------------------------------------------------------------
(* Spec assembly and validation *)

\* createDSPipelineResourceSpec(config, [databaseSecret, objectStorageSecret]).
\* Reading .replace of an undefined externalStorageHost throws a TypeError.
createDSPipelineResourceSpec(cfg, secretsResponse) ==
    LET databaseSecret      == secretsResponse[1]
        objectStorageSecret == secretsResponse[2]
        databaseRecord == dataEntryToRecord(cfg.database.value)
        awsRecord      == dataEntryToRecord(cfg.objectStorage.newValue)
        parts          == EndpointParts(Get(awsRecord, AWS_S3_ENDPOINT))
    IN  IF ~IsSome(parts.host)
        THEN [threw |-> TRUE, error |-> "TypeError", spec |-> None]
        ELSE [threw |-> FALSE, error |-> "", spec |-> Some(
            [dspVersion |-> "v2",
             objectStorage |-> [externalStorage |->
                [host   |-> OrElse(Some(StripTrailingSlash(Val(parts.host))), << >>),
                 scheme |-> OrElse(parts.scheme, Https),
                 bucket |-> OrElse(Get(awsRecord, AWS_S3_BUCKET), << >>),
                 region |-> Region,
                 s3CredentialsSecret |->
                    [accessKey  |-> AWS_ACCESS_KEY_ID,
                     secretKey  |-> AWS_SECRET_ACCESS_KEY,
                     secretName |-> objectStorageSecret.secretName]]],
             database |->
                IF IsSome(databaseSecret)
                THEN Some([externalDB |->
                        [host |-> Get(databaseRecord, DB_HOST),
                         passwordSecret |->
                            [key  |-> Val(databaseSecret).key,
                             name |-> Val(databaseSecret).name],
                         pipelineDBName |-> Get(databaseRecord, DB_DATABASE),
                         port     |-> Get(databaseRecord, DB_PORT),
                         username |-> Get(databaseRecord, DB_USERNAME)]])
                ELSE None])]

\* the keys of the fields marked required
RequiredKeys ==
    {PIPELINE_AWS_FIELDS[i].key :
        i \in {j \in DOMAIN PIPELINE_AWS_FIELDS : PIPELINE_AWS_FIELDS[j].isRequired}}

\* objectStorageIsValid(objectStorage): every ENTRY of the list is looked at
objectStorageIsValid(objectStorage) ==
    \A i \in DOMAIN objectStorage :
        IF objectStorage[i].key \in RequiredKeys
        THEN Trim(objectStorage[i].value) # << >>
        ELSE TRUE

\* getLabelName(index)
getLabelName(index) ==
    IF \E i \in DOMAIN PIPELINE_AWS_FIELDS : PIPELINE_AWS_FIELDS[i].key = index
    THEN PIPELINE_AWS_FIELDS[CHOOSE i \in DOMAIN PIPELINE_AWS_FIELDS :
            /\ PIPELINE_AWS_FIELDS[i].key = index
            /\ \A j \in DOMAIN PIPELINE_AWS_FIELDS :
                  PIPELINE_AWS_FIELDS[j].key = index => i <= j].label
    ELSE ""

-----------------------------------------------------------------------------
(* The cluster, and the configurations the flow is run on *)

\* names the cluster may give a created secret (the requested one, or another)
SecretNames == {"secret-a", "secret-b"}
\* errors a createSecret call may reject with
Errors == {"error-1", "error-2"}

DatabaseValues ==
    << [key |-> DB_HOST,     value |-> <<"d", "b">>],
       [key |-> DB_PORT,     value |-> <<"1">>],
       [key |-> DB_USERNAME, value |-> <<"u">>],
       [key |-> DB_PASSWORD, value |-> <<"p", "w">>],
       [key |-> DB_DATABASE, value |-> <<"m">>] >>

DatabaseConfigs ==
    { [useDefault |-> TRUE,  value |-> << >>],
      [useDefault |-> FALSE, value |-> DatabaseValues],
      [useDefault |-> FALSE, value |-> SubSeq(DatabaseValues, 1, 3)] }

Credentials ==
    << [key |-> AWS_ACCESS_KEY_ID,     value |-> <<"i", "d">>],
       [key |-> AWS_SECRET_ACCESS_KEY, value |-> <<"k">>] >>

\* endpoints the flow is run on: scheme://host/, bare host/, the empty string
FlowEndpoints ==
    { <<"s", "3", ":", "/", "/", "h", ".", "c", "/">>,
      <<"h", ".", "c", "/">>,
      << >> }

ObjectStorageValues ==
    { Credentials \o << [key |-> AWS_S3_ENDPOINT, value |-> e],
                        [key |-> AWS_S3_BUCKET,   value |-> <<"b">>] >>
        : e \in FlowEndpoints }
    \cup { Credentials \o << [key |-> AWS_S3_BUCKET, value |-> <<"b">>] >>,
           << [key |-> AWS_S3_ENDPOINT, value |-> <<"h">>] >> }

FlowConfigs ==
    { [database |-> d, objectStorage |-> [newValue |-> v]] :
        d \in DatabaseConfigs, v \in ObjectStorageValues }

\* assembleSecret(projectName, data, type, secretName)
assembleSecret(projectName, data, type, secretName) ==
    [namespace |-> projectName, name |-> secretName, type |-> type, data |-> data]

-----------------------------------------------------------------------------
(* Secret creation *)

Slots     == {"dbDry", "osDry", "dbReal", "osReal"}
DrySlots  == {"dbDry", "osDry"}
RealSlots == {"dbReal", "osReal"}
DbSlot(dryRun) == IF dryRun THEN "dbDry" ELSE "dbReal"
OsSlot(dryRun) == IF dryRun THEN "osDry" ELSE "osReal"

Pending == [state |-> "pending", value |-> None, error |-> ""]
Resolved(v) == [state |-> "resolved", value |-> Some(v), error |-> ""]
Rejected(e) == [state |-> "rejected", value |-> None, error |-> e]
\* resolve and reject of a promise: no effect once it is settled
Resolve(p, v) == IF p.state = "pending" THEN Resolved(v) ELSE p
Reject(p, e)  == IF p.state = "pending" THEN Rejected(e) ELSE p

NoCall == [status |-> "none", name |-> "", error |-> ""]

\* createDatabaseSecret also issues the request for the default database
createDatabaseSecretAlways(databaseConfig, projectName, dryRun) ==
    LET databaseRecord == dataEntryToRecord(databaseConfig.value)
    IN  << [op |-> "createSecret", slot |-> DbSlot(dryRun), dryRun |-> dryRun,
            secret |-> assembleSecret(projectName,
                          [k \in {ExternalDatabaseSecretKEY} |->
                              Get(databaseRecord, DB_PASSWORD)],
                          "generic", ExternalDatabaseSecretNAME)] >>

\* createDatabaseSecret(databaseConfig, projectName, dryRun): the createSecret
\* requests it issues; with none, it returns Promise.resolve(undefined)
createDatabaseSecret(databaseConfig, projectName, dryRun) ==
    IF ~databaseConfig.useDefault
    THEN LET databaseRecord == dataEntryToRecord(databaseConfig.value)
         IN  << [op |-> "createSecret", slot |-> DbSlot(dryRun), dryRun |-> dryRun,
                 secret |-> assembleSecret(projectName,
                               [k \in {ExternalDatabaseSecretKEY} |->
                                   Get(databaseRecord, DB_PASSWORD)],
                               "generic", ExternalDatabaseSecretNAME)] >>
    ELSE << >>

\* createObjectStorageSecret(objectStorageConfig, projectName, dryRun): the
\* createSecret request it issues
createObjectStorageSecret(objectStorageConfig, projectName, dryRun) ==
    LET awsRecord == dataEntryToRecord(objectStorageConfig.newValue)
    IN  << [op |-> "createSecret", slot |-> OsSlot(dryRun), dryRun |-> dryRun,
            secret |-> assembleSecret(projectName,
                          [k \in {AWS_ACCESS_KEY_ID, AWS_SECRET_ACCESS_KEY} |->
                              OrElseUndefined(Get(awsRecord, k), << >>)],
                          "generic", DSPA_SECRET_NAME)] >>

\* the two calls of one phase, issued in order: the requests, and the state of
\* the two promises
PhaseRequests(cfg, dryRun) ==
    createDatabaseSecret(cfg.database, ProjectName, dryRun)
        \o createObjectStorageSecret(cfg.objectStorage, ProjectName, dryRun)

IssuePhase(c, cfg, dryRun) ==
    [c EXCEPT
        ![DbSlot(dryRun)].status =
            IF createDatabaseSecret(cfg.database, ProjectName, dryRun) = << >>
            THEN "skipped" ELSE "pending",
        ![OsSlot(dryRun)].status = "pending"]

\* Promise.allSettled in place of Promise.all: the phase is over, however
PromiseAllSettled(c, slots) ==
    \A s \in slots : c[s].status \in {"resolved", "rejected", "skipped"}

\* Promise.all(...).then: every promise of the phase is fulfilled
PromiseAllFulfilled(c, slots) ==
    \A s \in slots : c[s].status \in {"resolved", "skipped"}

\* the tuple the dry-run phase resolved with
DryPhaseResponse(c) ==
    << IF c["dbDry"].status = "skipped" THEN None
       ELSE Some([key |-> ExternalDatabaseSecretKEY, name |-> c["dbDry"].name]),
       [secretName |-> c["osDry"].name] >>

\* resolve(resp): the tuple the real phase resolved with
RealPhaseResponse(c) ==
    << IF c["dbReal"].status = "skipped" THEN None
       ELSE Some([key |-> ExternalDatabaseSecretKEY, name |-> c["dbReal"].name]),
       [secretName |-> c["osReal"].name] >>

\* the inner promise chain without its .catch: the rejection is lost
RealPhaseUncaught(p, e) == p

\* .catch(reject) of the real phase
RealPhaseCatch(p, e) == Reject(p, e)

\* .catch(reject) of the dry-run phase
DryPhaseCatch(p, e) == Reject(p, e)

\* createSecrets(...).then(secretsResponse => createDSPipelineResourceSpec(...))
ThenCreateSpec(cfg, p) ==
    IF p.state = "resolved"
    THEN LET r == createDSPipelineResourceSpec(cfg, Val(p.value))
         IN  IF r.threw THEN Rejected(r.error) ELSE Resolved(Val(r.spec))
    ELSE IF p.state = "rejected" THEN Rejected(p.error)
    ELSE Pending

-----------------------------------------------------------------------------
(* The configuration flow: configureDSPipelineResourceSpec *)

FlowIdle(cfg) ==
    /\ config = cfg
    /\ flowStarted = FALSE
    /\ calls = [s \in Slots |-> NoCall]
    /\ requests = << >>
    /\ responses = << >>
    /\ secrets = {}
    /\ createSecretsP = Pending
    /\ configureP = Pending

PureIdle ==
    /\ specInput = None
    /\ specOutput = None
    /\ entries = << >>
    /\ validOutput = None

RequestOf(s) == CHOOSE r \in {requests[i] : i \in DOMAIN requests} : r.slot = s

\* configureDSPipelineResourceSpec(config, projectName) is called: createSecrets
\* issues the dry-run phase
StartConfigure ==
    /\ ~flowStarted
    /\ flowStarted' = TRUE
    /\ calls' = IssuePhase(calls, config, TRUE)
    /\ requests' = requests \o PhaseRequests(config, TRUE)
    /\ UNCHANGED <<config, responses, secrets, createSecretsP, configureP>>
    /\ UNCHANGED <<pureVars, settingsVars, projectVars>>

\* the cluster answers the createSecret call of slot s, and the promise
\* reactions run: the next phase, or the settling of createSecrets and of
\* configureDSPipelineResourceSpec
Respond(s, ok, n, e) ==
    /\ calls[s].status = "pending"
    /\ LET c2 == [calls EXCEPT ![s] =
                    IF ok THEN [status |-> "resolved", name |-> n, error |-> ""]
                    ELSE [status |-> "rejected", name |-> "", error |-> e]]
           startReal == /\ s \in DrySlots
                        /\ PromiseAllFulfilled(c2, DrySlots)
                        /\ \A r \in RealSlots : calls[r].status = "none"
           p2 == IF s \in DrySlots
                 THEN IF ok THEN createSecretsP
                      ELSE DryPhaseCatch(createSecretsP, e)
                 ELSE IF ~ok THEN RealPhaseCatch(createSecretsP, e)
                 ELSE IF PromiseAllFulfilled(c2, RealSlots)
                      THEN Resolve(createSecretsP, RealPhaseResponse(c2))
                      ELSE createSecretsP
       IN  /\ calls' = IF startReal THEN IssuePhase(c2, config, FALSE) ELSE c2
           /\ requests' = IF startReal
                          THEN requests \o PhaseRequests(config, FALSE)
                          ELSE requests
           /\ createSecretsP' = p2
           /\ configureP' = ThenCreateSpec(config, p2)
    /\ responses' = Append(responses,
            [slot |-> s, ok |-> ok,
             name |-> IF ok THEN n ELSE "", error |-> IF ok THEN "" ELSE e])
    /\ secrets' = IF ok /\ s \in RealSlots
                  THEN secrets \cup {[name |-> n, data |-> RequestOf(s).secret.data]}
                  ELSE secrets
    /\ UNCHANGED <<config, flowStarted>>
    /\ UNCHANGED <<pureVars, settingsVars, projectVars>>

SecretResolved == \E s \in Slots, n \in SecretNames : Respond(s, TRUE, n, "")

SecretRejected == \E s \in Slots, e \in Errors : Respond(s, FALSE, "", e)

FlowNext == StartConfigure \/ SecretResolved \/ SecretRejected

-----------------------------------------------------------------------------
(* createDSPipelineResourceSpec and objectStorageIsValid on their own *)

EndpointAlphabet == {"a", ".", ":", "/", "\n"}

Strings(alphabet, maxLen) == UNION {[1..n -> alphabet] : n \in 0..maxLen}

Buckets == {<<"b">>, <<"c">>}

EndpointConfigs ==
    { [database |-> [useDefault |-> FALSE, value |-> DatabaseValues],
       objectStorage |-> [newValue |->
            << [key |-> AWS_S3_ENDPOINT, value |-> e],
               [key |-> AWS_S3_BUCKET,   value |-> b] >>]] :
        e \in Strings(EndpointAlphabet, MaxLen), b \in Buckets }

SampleResponse ==
    << Some([key |-> ExternalDatabaseSecretKEY, name |-> "secret-a"]),
       [secretName |-> "secret-b"] >>

\* createDSPipelineResourceSpec(specInput, SampleResponse) is evaluated
AssembleSpec ==
    /\ IsSome(specInput)
    /\ specOutput = None
    /\ specOutput' = Some(createDSPipelineResourceSpec(Val(specInput), SampleResponse))
    /\ UNCHANGED <<specInput, entries, validOutput>>
    /\ UNCHANGED <<flowVars, settingsVars, projectVars>>

EntryKeys ==
    {AWS_ACCESS_KEY_ID, AWS_SECRET_ACCESS_KEY, AWS_S3_ENDPOINT,
     AWS_DEFAULT_REGION, AWS_S3_BUCKET}

EntryValues == {<< >>, <<" ">>, <<"a">>}

EntryLists ==
    UNION {[1..n -> [key : EntryKeys, value : EntryValues]] : n \in 0..MaxEntries}

\* objectStorageIsValid(entries) is evaluated
Validate ==
    /\ validOutput = None
    /\ validOutput' = Some(objectStorageIsValid(entries))
    /\ UNCHANGED <<specInput, specOutput, entries>>
    /\ UNCHANGED <<flowVars, settingsVars, projectVars>>

-----------------------------------------------------------------------------
(* The cluster settings form *)

\* bound on the updateClusterSettings calls of one run
MaxSaves == 2

\* The constants of ./const.  Their values are not part of the sources at
\* hand; the form depends only on 0 < DEFAULT_PVC_SIZE and on
\* MIN_CULLER_TIMEOUT <= DEFAULT_CULLER_TIMEOUT.
DEFAULT_PVC_SIZE == 20
DEFAULT_CULLER_TIMEOUT == 31536000
MIN_CULLER_TIMEOUT == 600
DEFAULT_TOLERATION_VALUE == "NotebooksOnly"

DEFAULT_CONFIG ==
    [pvcSize |-> DEFAULT_PVC_SIZE,
     cullerTimeout |-> DEFAULT_CULLER_TIMEOUT,
     userTrackingEnabled |-> FALSE,
     notebookTolerationSettings |->
        [enabled |-> FALSE, key |-> DEFAULT_TOLERATION_VALUE],
     modelServingPlatformEnabled |-> [kServe |-> TRUE, modelMesh |-> FALSE]]

\* values the form fields are set to
PvcSizes == {0, DEFAULT_PVC_SIZE}
CullerTimeouts == {MIN_CULLER_TIMEOUT - 1, MIN_CULLER_TIMEOUT, DEFAULT_CULLER_TIMEOUT}
TolerationSettings ==
    { [enabled |-> FALSE, key |-> DEFAULT_TOLERATION_VALUE, error |-> ""],
      [enabled |-> TRUE,  key |-> DEFAULT_TOLERATION_VALUE, error |-> ""],
      [enabled |-> TRUE,  key |-> "", error |-> "Toleration key is invalid"] }
PlatformSettings ==
    { [kServe |-> TRUE, modelMesh |-> FALSE], [kServe |-> TRUE, modelMesh |-> TRUE] }

\* settings the server may hold when the page loads
ServerSettings ==
    { DEFAULT_CONFIG,
      [pvcSize |-> DEFAULT_PVC_SIZE,
       cullerTimeout |-> MIN_CULLER_TIMEOUT,
       userTrackingEnabled |-> TRUE,
       notebookTolerationSettings |->
          [enabled |-> TRUE, key |-> DEFAULT_TOLERATION_VALUE],
       modelServingPlatformEnabled |-> [kServe |-> TRUE, modelMesh |-> TRUE]] }

\* the settings object the component builds from its fields, in
\* isSettingsChanged and as newClusterSettings
CurrentSettings ==
    [pvcSize |-> pvcSize,
     cullerTimeout |-> cullerTimeout,
     userTrackingEnabled |-> userTrackingEnabled,
     notebookTolerationSettings |->
        [enabled |-> notebookTolerationSettings.enabled,
         key |-> notebookTolerationSettings.key],
     modelServingPlatformEnabled |-> modelServingEnabledPlatforms]

\* isSettingsChanged: !_.isEqual(clusterSettings, {...})
isSettingsChanged == clusterSettings # CurrentSettings

\* isDisabled without its !pvcSize
SaveDisabledIgnoringPvcSize ==
    \/ saving
    \/ cullerTimeout < MIN_CULLER_TIMEOUT
    \/ ~isSettingsChanged
    \/ notebookTolerationSettings.error # ""

\* isDisabled of the Save button
SaveDisabled ==
    \/ saving
    \/ pvcSize = 0
    \/ cullerTimeout < MIN_CULLER_TIMEOUT
    \/ ~isSettingsChanged
    \/ notebookTolerationSettings.error # ""

\* the two conditions of handleSaveButtonClicked under which it calls
\* updateClusterSettings(newClusterSettings)
HandlerSubmits(newClusterSettings) ==
    /\ clusterSettings # newClusterSettings
    /\ newClusterSettings.pvcSize # 0
    /\ newClusterSettings.cullerTimeout >= MIN_CULLER_TIMEOUT

\* setClusterSettings with the fields as they are when the response arrives
SavedBaselineFromFields(newClusterSettings) == CurrentSettings

\* setClusterSettings(newClusterSettings) of the success branch: the object
\* the handler built when it was clicked
SavedBaseline(newClusterSettings) == newClusterSettings

\* the component after its first render: the mount effect has called
\* fetchClusterSettings.  isJupyterEnabled decides the initial toleration key.
SettingsMounted(isJupyterEnabled) ==
    /\ loaded = FALSE
    /\ saving = FALSE
    /\ loadError = ""
    /\ clusterSettings = DEFAULT_CONFIG
    /\ pvcSize = DEFAULT_PVC_SIZE
    /\ userTrackingEnabled = FALSE
    /\ cullerTimeout = DEFAULT_CULLER_TIMEOUT
    /\ notebookTolerationSettings =
          [enabled |-> FALSE,
           key |-> IF isJupyterEnabled THEN DEFAULT_TOLERATION_VALUE ELSE "",
           error |-> ""]
    /\ modelServingEnabledPlatforms = DEFAULT_CONFIG.modelServingPlatformEnabled
    /\ fetchPending = TRUE
    /\ inflight = << >>
    /\ notifications = << >>
    /\ lastEvent = "mount"

\* fetchClusterSettings().then(...)
FetchResolved ==
    /\ fetchPending
    /\ \E s \in ServerSettings :
          /\ clusterSettings' = s
          /\ modelServingEnabledPlatforms' = s.modelServingPlatformEnabled
    /\ loaded' = TRUE
    /\ loadError' = ""
    /\ fetchPending' = FALSE
    /\ lastEvent' = "loaded"
    /\ UNCHANGED <<saving, pvcSize, userTrackingEnabled, cullerTimeout,
                   notebookTolerationSettings, inflight, notifications>>
    /\ UNCHANGED <<flowVars, pureVars, projectVars>>

\* fetchClusterSettings().catch(...)
FetchRejected ==
    /\ fetchPending
    /\ loadError' = "load error"
    /\ fetchPending' = FALSE
    /\ lastEvent' = "loadFailed"
    /\ UNCHANGED <<loaded, saving, clusterSettings, pvcSize, userTrackingEnabled,
                   cullerTimeout, notebookTolerationSettings,
                   modelServingEnabledPlatforms, inflight, notifications>>
    /\ UNCHANGED <<flowVars, pureVars, projectVars>>

\* ApplicationsPage, given loaded and loadError, shows its children (the field
\* editors and the Save button) only once the settings are loaded
ChildrenShown == loaded /\ loadError = ""

\* Each editor sets one field.
SetPvcSize ==
    /\ ChildrenShown
    /\ \E v \in PvcSizes : pvcSize' = v
    /\ lastEvent' = "edit"
    /\ UNCHANGED <<loaded, loadError, saving, clusterSettings, userTrackingEnabled,
                   cullerTimeout, notebookTolerationSettings,
                   modelServingEnabledPlatforms, fetchPending, inflight,
                   notifications>>
    /\ UNCHANGED <<flowVars, pureVars, projectVars>>

SetCullerTimeout ==
    /\ ChildrenShown
    /\ \E v \in CullerTimeouts : cullerTimeout' = v
    /\ lastEvent' = "edit"
    /\ UNCHANGED <<loaded, loadError, saving, clusterSettings, pvcSize,
                   userTrackingEnabled, notebookTolerationSettings,
                   modelServingEnabledPlatforms, fetchPending, inflight,
                   notifications>>
    /\ UNCHANGED <<flowVars, pureVars, projectVars>>

SetUserTrackingEnabled ==
    /\ ChildrenShown
    /\ \E v \in BOOLEAN : userTrackingEnabled' = v
    /\ lastEvent' = "edit"
    /\ UNCHANGED <<loaded, loadError, saving, clusterSettings, pvcSize,
                   cullerTimeout, notebookTolerationSettings,
                   modelServingEnabledPlatforms, fetchPending, inflight,
                   notifications>>
    /\ UNCHANGED <<flowVars, pureVars, projectVars>>

SetNotebookTolerationSettings ==
    /\ ChildrenShown
    /\ \E v \in TolerationSettings : notebookTolerationSettings' = v
    /\ lastEvent' = "edit"
    /\ UNCHANGED <<loaded, loadError, saving, clusterSettings, pvcSize,
                   userTrackingEnabled, cullerTimeout,
                   modelServingEnabledPlatforms, fetchPending, inflight,
                   notifications>>
    /\ UNCHANGED <<flowVars, pureVars, projectVars>>

SetModelServingEnabledPlatforms ==
    /\ ChildrenShown
    /\ \E v \in PlatformSettings : modelServingEnabledPlatforms' = v
    /\ lastEvent' = "edit"
    /\ UNCHANGED <<loaded, loadError, saving, clusterSettings, pvcSize,
                   userTrackingEnabled, cullerTimeout, notebookTolerationSettings,
                   fetchPending, inflight, notifications>>
    /\ UNCHANGED <<flowVars, pureVars, projectVars>>

\* the user clicks Save changes: a disabled button takes no click; an enabled
\* one runs handleSaveButtonClicked
ClickSave ==
    /\ ChildrenShown
    /\ Len(inflight) + Len(notifications) < MaxSaves
    /\ IF SaveDisabled
       THEN /\ lastEvent' = "clickIgnored"
            /\ UNCHANGED <<saving, inflight>>
       ELSE IF HandlerSubmits(CurrentSettings)
       THEN /\ saving' = TRUE
            /\ inflight' = Append(inflight, CurrentSettings)
            /\ lastEvent' = "clickSubmitted"
       ELSE /\ lastEvent' = "clickNoCall"
            /\ UNCHANGED <<saving, inflight>>
    /\ UNCHANGED <<loaded, loadError, clusterSettings, pvcSize, userTrackingEnabled,
                   cullerTimeout, notebookTolerationSettings,
                   modelServingEnabledPlatforms, fetchPending, notifications>>
    /\ UNCHANGED <<flowVars, pureVars, projectVars>>

RemoveAt(q, i) == SubSeq(q, 1, i - 1) \o SubSeq(q, i + 1, Len(q))

\* updateClusterSettings(...).then(response => ...) with response.success
UpdateSucceeded ==
    /\ \E i \in DOMAIN inflight :
          /\ clusterSettings' = SavedBaseline(inflight[i])
          /\ inflight' = RemoveAt(inflight, i)
    /\ saving' = FALSE
    /\ notifications' = Append(notifications, "success")
    /\ lastEvent' = "saved"
    /\ UNCHANGED <<loaded, loadError, pvcSize, userTrackingEnabled, cullerTimeout,
                   notebookTolerationSettings, modelServingEnabledPlatforms,
                   fetchPending>>
    /\ UNCHANGED <<flowVars, pureVars, projectVars>>

\* the response without success: the then branch turns saving off and throws
\* into the catch, which dispatches the danger notification
UpdateRefused ==
    /\ \E i \in DOMAIN inflight : inflight' = RemoveAt(inflight, i)
    /\ saving' = FALSE
    /\ notifications' = Append(notifications, "danger")
    /\ lastEvent' = "saveFailed"
    /\ UNCHANGED <<loaded, loadError, clusterSettings, pvcSize, userTrackingEnabled,
                   cullerTimeout, notebookTolerationSettings,
                   modelServingEnabledPlatforms, fetchPending>>
    /\ UNCHANGED <<flowVars, pureVars, projectVars>>

\* updateClusterSettings rejects: .catch(e => ...)
UpdateRejected ==
    /\ \E i \in DOMAIN inflight : inflight' = RemoveAt(inflight, i)
    /\ saving' = FALSE
    /\ notifications' = Append(notifications, "danger")
    /\ lastEvent' = "saveFailed"
    /\ UNCHANGED <<loaded, loadError, clusterSettings, pvcSize, userTrackingEnabled,
                   cullerTimeout, notebookTolerationSettings,
                   modelServingEnabledPlatforms, fetchPending>>
    /\ UNCHANGED <<flowVars, pureVars, projectVars>>

SettingsNext ==
    \/ FetchResolved \/ FetchRejected
    \/ SetPvcSize \/ SetCullerTimeout \/ SetUserTrackingEnabled
    \/ SetNotebookTolerationSettings \/ SetModelServingEnabledPlatforms
    \/ ClickSave \/ UpdateSucceeded \/ UpdateRefused \/ UpdateRejected

-----------------------------------------------------------------------------
(* createProject *)

ODH_PRODUCT_NAME == "Open Data Hub"
UnableToFullyCreate == "Unable to fully create your project. Ask a Open Data Hub admin for assistance."

ToLowerCase(c) == IF c = "A" THEN "a" ELSE IF c = "B" THEN "b" ELSE c

RECURSIVE ReplaceChars(_)
\* toLowerCase, white space to "-", and what is not [A-Za-z0-9-] dropped
ReplaceChars(s) ==
    IF s = << >> THEN << >>
    ELSE LET c == ToLowerCase(Head(s))
         IN  IF c \in WhiteSpace THEN <<"-">> \o ReplaceChars(Tail(s))
             ELSE IF c \in WordChars \ {"_"} \/ c = "-"
                  THEN <<c>> \o ReplaceChars(Tail(s))
                  ELSE ReplaceChars(Tail(s))

\* translateDisplayNameForK8s(name)
translateDisplayNameForK8s(name) == ReplaceChars(Trim(name))

\* a || b for two strings
OrString(a, b) == IF a # << >> THEN a ELSE b

DisplayNames == { <<"A", " ", "b">>, <<"a", "!">>, <<" ">> }
K8sNames == { None, Some(<<"k">>) }
Descriptions == { << >>, <<"d">> }
ProjectArgs ==
    [username : {"user"}, displayName : DisplayNames,
     description : Descriptions, k8sName : K8sNames]

\* the name the ProjectRequest is created with
RequestedName(args) ==
    LET k8sName == OrElseUndefined(args.k8sName, << >>)
        name == OrString(k8sName, translateDisplayNameForK8s(args.displayName))
    IN  OrString(k8sName, translateDisplayNameForK8s(name))

\* project.metadata.name of the answer: the requested name, or one the
\* cluster chose
ReturnedNames(args) == {RequestedName(args), <<"x">>}

\* what GET /api/namespaces/{name}/0 may answer with: data.applied true or
\* false, data without applied
LabelResponses == { Some(TRUE), Some(FALSE), None }

ProjectIdle(args) ==
    /\ projectArgs = args
    /\ projectPc = "idle"
    /\ projectCalls = << >>
    /\ projects = {}
    /\ createdName = None
    /\ labelResponse = None
    /\ projectP = Pending

\* throwErrorFromAxios(error): the Error it throws, which is the one it was
\* given (for a failed request, an Error with the message of the response)
throwErrorFromAxios(error) == error

\* response.data?.applied ?? true
AppliedOrTrue(response) == OrElseUndefined(response, TRUE)

\* response.data?.applied ?? false
Applied(response) == OrElseUndefined(response, FALSE)

\* axios(`/api/namespaces/${projectName}/0`)
LabelRequest(projectName) ==
    [op |-> "GET /api/namespaces/{name}/0", name |-> projectName]

\* createProject(username, displayName, description, k8sName) is called and
\* issues k8sCreateResource
CallCreateProject ==
    /\ projectPc = "idle"
    /\ projectPc' = "creating"
    /\ projectCalls' = Append(projectCalls,
            [op |-> "create ProjectRequest", name |-> RequestedName(projectArgs)])
    /\ UNCHANGED <<projectArgs, projects, createdName, labelResponse, projectP>>
    /\ UNCHANGED <<flowVars, pureVars, settingsVars>>

\* k8sCreateResource resolves with the project: the labeling request goes out
CreateResolved ==
    /\ projectPc = "creating"
    /\ \E n \in ReturnedNames(projectArgs) :
          /\ projects' = projects \cup {n}
          /\ createdName' = Some(n)
          /\ projectCalls' = Append(projectCalls, LabelRequest(n))
    /\ projectPc' = "labeling"
    /\ UNCHANGED <<projectArgs, labelResponse, projectP>>
    /\ UNCHANGED <<flowVars, pureVars, settingsVars>>

\* k8sCreateResource rejects: .catch(reject)
CreateRejected ==
    /\ projectPc = "creating"
    /\ \E e \in Errors : projectP' = Reject(projectP, e)
    /\ projectPc' = "done"
    /\ UNCHANGED <<projectArgs, projectCalls, projects, createdName, labelResponse>>
    /\ UNCHANGED <<flowVars, pureVars, settingsVars>>

\* the namespace endpoint answers: resolve(projectName) when applied, else the
\* Error thrown goes through throwErrorFromAxios, which throws it on, to reject
LabelAnswered ==
    /\ projectPc = "labeling"
    /\ \E r \in LabelResponses :
          /\ labelResponse' = Some(r)
          /\ projectP' = IF Applied(r)
                         THEN Resolve(projectP, Val(createdName))
                         ELSE Reject(projectP, throwErrorFromAxios(UnableToFullyCreate))
    /\ projectPc' = "done"
    /\ UNCHANGED <<projectArgs, projectCalls, projects, createdName>>
    /\ UNCHANGED <<flowVars, pureVars, settingsVars>>

\* the request to the namespace endpoint fails: throwErrorFromAxios throws an
\* Error for it, and .catch(reject) rejects with that
LabelFailed ==
    /\ projectPc = "labeling"
    /\ \E e \in Errors : projectP' = Reject(projectP, throwErrorFromAxios(e))
    /\ projectPc' = "done"
    /\ UNCHANGED <<projectArgs, projectCalls, projects, createdName, labelResponse>>
    /\ UNCHANGED <<flowVars, pureVars, settingsVars>>

ProjectNext ==
    \/ CallCreateProject \/ CreateResolved \/ CreateRejected
    \/ LabelAnswered \/ LabelFailed

-----------------------------------------------------------------------------
(* Specifications: one per piece of the program, the others at rest *)

IdleConfig == CHOOSE cfg \in FlowConfigs : cfg.database.useDefault
IdleArgs == CHOOSE args \in ProjectArgs : TRUE

\* the configuration flow
FlowInit ==
    /\ \E cfg \in FlowConfigs : FlowIdle(cfg)
    /\ PureIdle
    /\ SettingsMounted(TRUE)
    /\ ProjectIdle(IdleArgs)

Spec == FlowInit /\ [][FlowNext]_vars

\* createDSPipelineResourceSpec on every endpoint string up to MaxLen
EndpointInit ==
    /\ FlowIdle(IdleConfig)
    /\ specInput \in {Some(cfg) : cfg \in EndpointConfigs}
    /\ specOutput = None
    /\ entries = << >>
    /\ validOutput = None
    /\ SettingsMounted(TRUE)
    /\ ProjectIdle(IdleArgs)

SpecEndpoint == EndpointInit /\ [][AssembleSpec]_vars

\* objectStorageIsValid on every entry list up to MaxEntries
ValidInit ==
    /\ FlowIdle(IdleConfig)
    /\ specInput = None
    /\ specOutput = None
    /\ entries \in EntryLists
    /\ validOutput = None
    /\ SettingsMounted(TRUE)
    /\ ProjectIdle(IdleArgs)

SpecValid == ValidInit /\ [][Validate]_vars

\* the cluster settings form
SettingsInit ==
    /\ FlowIdle(IdleConfig)
    /\ PureIdle
    /\ \E isJupyterEnabled \in BOOLEAN : SettingsMounted(isJupyterEnabled)
    /\ ProjectIdle(IdleArgs)

SpecSettings == SettingsInit /\ [][SettingsNext]_vars

\* createProject
ProjectInit ==
    /\ FlowIdle(IdleConfig)
    /\ PureIdle
    /\ SettingsMounted(TRUE)
    /\ \E args \in ProjectArgs : ProjectIdle(args)

SpecProject == ProjectInit /\ [][ProjectNext]_vars

-----------------------------------------------------------------------------
(* Properties of the configuration flow *)

RealRequests == {i \in DOMAIN requests : ~requests[i].dryRun}
DryRequests  == {i \in DOMAIN requests : requests[i].dryRun}

\* the response the cluster gave to the call of slot s
ResponseTo(s) == CHOOSE r \in {responses[i] : i \in DOMAIN responses} : r.slot = s
Answered(s) == \E i \in DOMAIN responses : responses[i].slot = s

\* the first rejection the flow received
FirstRejection ==
    responses[CHOOSE i \in DOMAIN responses :
        /\ ~responses[i].ok
        /\ \A j \in DOMAIN responses : ~responses[j].ok => i <= j]

AwsRecordOf(cfg) == dataEntryToRecord(cfg.objectStorage.newValue)

\* C1: a real (dryRun = false) createSecret request is in the log only when
\* every dry-run request issued before it has been answered successfully; once
\* a dry-run call is rejected, no real request is ever issued.
C1_NoRealCallBeforeDryRunSucceeds ==
    /\ RealRequests # {} =>
          /\ \E i \in DryRequests : requests[i].slot = "osDry"
          /\ \A i \in DryRequests :
                /\ Answered(requests[i].slot)
                /\ ResponseTo(requests[i].slot).ok
                /\ \A j \in RealRequests : i < j
    /\ (\E i \in DOMAIN responses :
            responses[i].slot \in DrySlots /\ ~responses[i].ok)
          => RealRequests = {}

\* one dry-run call rejected, the other resolved, and no real call was issued
C1_Witness ==
    /\ Answered("dbDry") /\ ~ResponseTo("dbDry").ok
    /\ Answered("osDry") /\ ResponseTo("osDry").ok
    /\ RealRequests = {}

\* C2 as stated: whenever a createSecret call has rejected, createSecrets is
\* rejected with that very call's error, no spec is assembled, and every secret
\* whose real creation succeeded is still persisted.
C2_RejectsWithThatCallsError ==
    \A i \in DOMAIN responses :
        ~responses[i].ok =>
            /\ createSecretsP = Rejected(responses[i].error)
            /\ configureP.state = "rejected" /\ configureP.value = None

\* C2 as amended: whenever a createSecret call has rejected, createSecrets is
\* rejected with the error of the first call that rejected and never resolves,
\* configureDSPipelineResourceSpec is rejected with the same error and holds
\* no spec, only create requests were issued, and every secret whose real
\* creation succeeded is still persisted.
C2_RejectsWithFirstError ==
    /\ (\E i \in DOMAIN responses : ~responses[i].ok) =>
            /\ createSecretsP = Rejected(FirstRejection.error)
            /\ configureP = Rejected(FirstRejection.error)
    /\ \A i \in DOMAIN responses :
            (responses[i].ok /\ responses[i].slot \in RealSlots) =>
                \E sec \in secrets : sec.name = responses[i].name
    /\ \A i \in DOMAIN requests : requests[i].op = "createSecret"

\* one real creation succeeded and stays persisted, the other was rejected
C2_Witness ==
    /\ Answered("dbReal") /\ ResponseTo("dbReal").ok
    /\ Answered("osReal") /\ ~ResponseTo("osReal").ok
    /\ createSecretsP.state = "rejected"
    /\ secrets # {}

\* C3: with database.useDefault, no createSecret request is ever issued for
\* the database in either phase and createDatabaseSecret yields undefined; the
\* object-storage secret is requested in both phases and persisted by the time
\* createSecrets resolves; the spec returned has no database.externalDB.
C3_DefaultDatabaseCreatesNoSecret ==
    config.database.useDefault =>
        /\ \A i \in DOMAIN requests : requests[i].slot \in {"osDry", "osReal"}
        /\ ~Answered("dbDry") /\ ~Answered("dbReal")
        /\ flowStarted => calls["dbDry"].status = "skipped"
        /\ createSecretsP.state = "resolved" =>
              /\ Val(createSecretsP.value)[1] = None
              /\ \E i \in DryRequests : requests[i].slot = "osDry"
              /\ \E i \in RealRequests : requests[i].slot = "osReal"
              /\ \E sec \in secrets : sec.name = ResponseTo("osReal").name
        /\ configureP.state = "resolved" =>
              Val(configureP.value).database = None

\* the flow resolved with a spec for a default database
C3_Witness ==
    /\ config.database.useDefault
    /\ configureP.state = "resolved"

\* C4: with an external database, the spec the flow resolves with names the
\* database secret by the fixed key and by the name the cluster returned to
\* the real database call, and the object-storage secret by the name returned
\* to the real object-storage call; a name only a dry-run call returned is not
\* in the spec.
C4_SpecNamesRealSecrets ==
    (~config.database.useDefault /\ configureP.state = "resolved") =>
        LET spec == Val(configureP.value)
            pw   == Val(spec.database).externalDB.passwordSecret
            os   == spec.objectStorage.externalStorage.s3CredentialsSecret
        IN  /\ IsSome(spec.database)
            /\ pw = [key |-> ExternalDatabaseSecretKEY,
                     name |-> ResponseTo("dbReal").name]
            /\ os.secretName = ResponseTo("osReal").name
            /\ ResponseTo("dbDry").name # ResponseTo("dbReal").name
                  => pw.name # ResponseTo("dbDry").name
            /\ ResponseTo("osDry").name # ResponseTo("osReal").name
                  => os.secretName # ResponseTo("osDry").name

\* the flow resolved after the cluster named the dry-run secrets differently
C4_Witness ==
    /\ ~config.database.useDefault
    /\ configureP.state = "resolved"
    /\ ResponseTo("dbDry").name # ResponseTo("dbReal").name
    /\ ResponseTo("osDry").name # ResponseTo("osReal").name

\* C5 as stated: when the form data has no AWS_S3_ENDPOINT entry and the real
\* secrets have been created, the flow resolves with a spec whose scheme is
\* 'https' and whose host is the empty string; it does not reject.
C5_MissingEndpointDefaults ==
    (AWS_S3_ENDPOINT \notin DOMAIN AwsRecordOf(config)
        /\ createSecretsP.state = "resolved") =>
        /\ configureP.state = "resolved"
        /\ Val(configureP.value).objectStorage.externalStorage.scheme = Https
        /\ Val(configureP.value).objectStorage.externalStorage.host = << >>

-----------------------------------------------------------------------------
(* Properties of createDSPipelineResourceSpec and objectStorageIsValid *)

EndpointOf(cfg) == AwsRecordOf(cfg)[AWS_S3_ENDPOINT]

\* e starts with n word characters followed by "://"
SchemeEndsAt(e, n) ==
    /\ n >= 1
    /\ Len(e) >= n + 3
    /\ \A i \in 1..n : e[i] \in WordChars
    /\ e[n + 1] = ":" /\ e[n + 2] = "/" /\ e[n + 3] = "/"

SingleLine(e) == \A i \in DOMAIN e : e[i] \notin LineTerminators

\* C7: for an endpoint scheme://host/ (the scheme made of word characters, as
\* the expression reads it) the spec has that scheme and the host without its
\* one trailing slash; for an endpoint with no scheme the scheme is 'https'
\* and the host is the endpoint without its trailing slash, if it has one; the
\* bucket is the AWS_S3_BUCKET value and the region is 'us-east-2'.
C7_EndpointParsed ==
    IsSome(specOutput) =>
        LET cfg == Val(specInput)
            e   == EndpointOf(cfg)
            out == Val(specOutput)
            es  == Val(out.spec).objectStorage.externalStorage
        IN  /\ ~out.threw
            /\ es.bucket = AwsRecordOf(cfg)[AWS_S3_BUCKET]
            /\ es.region = "us-east-2"
            /\ \A n \in 1..Len(e) :
                  (SingleLine(e) /\ SchemeEndsAt(e, n)
                        /\ Len(e) >= n + 4 /\ e[Len(e)] = "/") =>
                      /\ es.scheme = SubSeq(e, 1, n)
                      /\ es.host = SubSeq(e, n + 4, Len(e) - 1)
            /\ (SingleLine(e) /\ ~\E n \in 1..Len(e) : SchemeEndsAt(e, n)) =>
                      /\ es.scheme = Https
                      /\ es.host = IF e # << >> /\ e[Len(e)] = "/"
                                   THEN SubSeq(e, 1, Len(e) - 1) ELSE e

\* a spec was assembled for an endpoint scheme://host/ whose host ends in a
\* slash itself
C7_Witness ==
    /\ IsSome(specOutput)
    /\ EndpointOf(Val(specInput)) = <<"a", ":", "/", "/", "/", "/">>
    /\ Val(Val(specOutput).spec).objectStorage.externalStorage.host = <<"/">>

\* C6 as stated: objectStorageIsValid returns false exactly when some required
\* field of PIPELINE_AWS_FIELDS has no entry in the list or has an entry whose
\* value is blank after trimming.
C6_InvalidIffRequiredMissingOrBlank ==
    IsSome(validOutput) =>
        (Val(validOutput) = FALSE <=>
            \E k \in RequiredKeys :
                \/ \A i \in DOMAIN entries : entries[i].key # k
                \/ \E i \in DOMAIN entries :
                      /\ entries[i].key = k
                      /\ \A c \in DOMAIN entries[i].value :
                            entries[i].value[c] \in WhiteSpace)

-----------------------------------------------------------------------------
(* Properties of the cluster settings form *)

\* the states in which a save must not go out
SaveBlocked ==
    \/ pvcSize = 0
    \/ cullerTimeout < MIN_CULLER_TIMEOUT
    \/ clusterSettings = CurrentSettings

\* C8: while the edited pvcSize is 0, the edited cullerTimeout is below
\* MIN_CULLER_TIMEOUT or the edited settings equal the baseline, the Save
\* button is disabled, and no step taken from such a state issues an
\* updateClusterSettings call or turns saving on.
C8_NoSaveWhileBlocked ==
    /\ [](SaveBlocked => SaveDisabled)
    /\ [][SaveBlocked =>
            /\ Len(inflight') <= Len(inflight)
            /\ ~saving => ~saving']_vars

\* Save was clicked with pvcSize 0 and changed settings: nothing went out
C8_Witness ==
    /\ lastEvent = "clickIgnored"
    /\ pvcSize = 0
    /\ cullerTimeout >= MIN_CULLER_TIMEOUT
    /\ clusterSettings # CurrentSettings
    /\ ~saving
    /\ inflight = << >>
    /\ notifications = << >>

\* C10: once loaded, the baseline changes only in the step that handles a
\* successful update response, and becomes the settings that call submitted;
\* a step that handles a failed update leaves the baseline and dispatches a
\* danger notification; either way one notification is dispatched and saving
\* is false afterwards; while saving the Save button is disabled, and at most
\* one update request is in flight.
C10_BaselineFollowsSuccessfulSave ==
    /\ [](/\ Len(inflight) <= 1
          /\ inflight # << >> => saving
          /\ saving => SaveDisabled)
    /\ [][/\ (loaded /\ clusterSettings' # clusterSettings) =>
                /\ inflight # << >>
                /\ clusterSettings' = Head(inflight)
                /\ lastEvent' = "saved"
          /\ Len(inflight') < Len(inflight) =>
                /\ ~saving'
                /\ Len(notifications') = Len(notifications) + 1
                /\ lastEvent' = "saved" =>
                      /\ clusterSettings' = Head(inflight)
                      /\ notifications' = Append(notifications, "success")
                /\ lastEvent' # "saved" =>
                      /\ clusterSettings' = clusterSettings
                      /\ notifications' = Append(notifications, "danger")]_vars

\* a save succeeded after a field was edited while it was in flight: the
\* baseline is what was submitted, not what the fields hold
C10_Witness ==
    /\ lastEvent = "saved"
    /\ clusterSettings # CurrentSettings
    /\ clusterSettings \notin ServerSettings
    /\ ~saving

-----------------------------------------------------------------------------
(* Properties of createProject *)

CreateCalls == {i \in DOMAIN projectCalls : projectCalls[i].op = "create ProjectRequest"}
LabelCalls  == {i \in DOMAIN projectCalls : projectCalls[i].op # "create ProjectRequest"}
AppliedTrue == IsSome(labelResponse) /\ Val(labelResponse) = Some(TRUE)

\* C9: the labeling request is issued only after the ProjectRequest creation
\* resolved, for the name the cluster returned; createProject resolves, with
\* that name, exactly when the answer carries applied = true, and is rejected
\* with an error once it is over otherwise; each of the two requests is issued
\* at most once, and the created project stays on the cluster.
C9_CreateThenLabelOnce ==
    /\ Cardinality(CreateCalls) <= 1
    /\ Cardinality(LabelCalls) <= 1
    /\ \A i \in LabelCalls :
          /\ IsSome(createdName)
          /\ projectCalls[i].name = Val(createdName)
          /\ \E j \in CreateCalls : j < i
    /\ projectP.state = "resolved" <=> AppliedTrue
    /\ projectP.state = "resolved" => projectP.value = Some(Val(createdName))
    /\ (projectPc = "done" /\ ~AppliedTrue) =>
          /\ projectP.state = "rejected"
          /\ projectP.error # ""
    /\ IsSome(createdName) => Val(createdName) \in projects

\* the cluster named the project itself and the answer carried no applied
\* flag: createProject is rejected and the project is still there
C9_Witness ==
    /\ projectPc = "done"
    /\ projectP.state = "rejected"
    /\ labelResponse = Some(None)
    /\ IsSome(createdName)
    /\ Val(createdName) # RequestedName(projectArgs)
    /\ Val(createdName) \in projects

====
